---- MODULE Spec2Model ----
(***************************************************************************)
(* Model of gitlab-matrix-notifier.py: the polling loop of main, the       *)
(* cleanup of the notified set (clean_notified_mrs), the notify loop and   *)
(* the JSON store file (load_notified_mrs / save_notified_mrs).            *)
(*                                                                         *)
(* The tracker (GitLab) and the chat room (Matrix) are the environment:    *)
(* every HTTP call either returns a response computed from the tracker's   *)
(* current state or raises; the tracker changes between any two steps.     *)
(* The process may be killed at any point and started again; the store     *)
(* file is the only state that survives a restart.                         *)
(***************************************************************************)
EXTENDS Integers, Sequences, FiniteSets, TLC

\* Merge requests the model tracks: iids 1..MaxId.
MaxId == 2

Ids == 1..MaxId

\* What the tracker knows of one merge request: its state, and whether an
\* opened one bears the review:ready label (the label of a closed or merged
\* one is never read by the program).
Statuses == {"opened+ready", "opened", "closed", "merged"}

TrackerStates == [Ids -> Statuses]

\* The merge requests one response of the tracker holds: the code asks for
\* per_page=100 and reads the first page only.  Scaled to the model's iids.
PerPage == 2

\* The other merge requests of the project, all newer than those of Ids: so
\* many closed ones and so many opened ones (without the label).
OthersStates == [closed : 0..PerPage, opened : 0..PerPage]

NoOthers == [closed |-> 0, opened |-> 0]

OtherClosed(o) == (MaxId + 1)..(MaxId + o.closed)

OtherOpened(o) == (MaxId + PerPage + 1)..(MaxId + PerPage + o.opened)

\* int(os.environ.get("CHECK_INTERVAL", 300))
DEFAULT_CHECK_INTERVAL == 300

\* The values CHECK_INTERVAL is configured with: the default, and others.
Intervals == {30, 60, 120, DEFAULT_CHECK_INTERVAL}

\* time.sleep(60) of the exception handler.
ERROR_SLEEP == 60

(***************************************************************************)
(* The store file: JSON text, as a sequence of tokens.                     *)
(***************************************************************************)

\* The decimal text json.dump writes for an integer.
NumberToken(i) == ToString(i)

IsNumberToken(tok) == \E i \in Ids : NumberToken(i) = tok

\* The integer json.load reads from a number token.
TokenNumber(tok) == CHOOSE i \in Ids : NumberToken(i) = tok

RECURSIVE Items(_)
Items(list) ==
    IF list = <<>> THEN <<>>
    ELSE IF Len(list) = 1 THEN <<NumberToken(list[1])>>
    ELSE <<NumberToken(list[1]), ",">> \o Items(Tail(list))

\* Mutant: the text of the set itself, str(notified_mrs), is written.
str_of_set(list) == <<"{">> \o Items(list) \o <<"}">>

\* json.dump(list): "[", the items separated by ",", "]".
json_dump(list) == <<"[">> \o Items(list) \o <<"]">>

\* Whether json.load accepts the text as a list of integers (it raises
\* JSONDecodeError on anything else the program can have written, such as
\* an empty or a truncated file).
json_loads_ok(text) ==
    /\ Len(text) >= 2
    /\ text[1] = "["
    /\ text[Len(text)] = "]"
    /\ LET inner == SubSeq(text, 2, Len(text) - 1)
       IN  \/ inner = <<>>
           \/ /\ Len(inner) % 2 = 1
              /\ \A k \in 1..Len(inner) :
                    IF k % 2 = 1 THEN IsNumberToken(inner[k]) ELSE inner[k] = ","

\* The list json.load returns for a text it accepts.
json_load(text) ==
    LET inner == SubSeq(text, 2, Len(text) - 1)
    IN  [k \in 1..((Len(inner) + 1) \div 2) |-> TokenNumber(inner[2 * k - 1])]

\* set(list)
SetOf(list) == {list[k] : k \in 1..Len(list)}

\* list(s): the elements of a set in some iteration order.
ListsOf(s) ==
    {l \in [1..Cardinality(s) -> s] : \A i, j \in 1..Cardinality(s) : i # j => l[i] # l[j]}

NoFile == [exists |-> FALSE, text |-> <<>>]

FileWith(text) == [exists |-> TRUE, text |-> text]

\* Mutant: every exception of the load is caught and gives the empty set.
load_catch_all(f, readable) ==
    IF ~f.exists \/ ~readable \/ ~json_loads_ok(f.text) THEN [raised |-> FALSE, value |-> {}]
    ELSE [raised |-> FALSE, value |-> SetOf(json_load(f.text))]

\* load_notified_mrs: open raises FileNotFoundError on a missing file, which
\* is caught and gives the empty set; any other error of open (readable is
\* FALSE: permission denied, an I/O error) and any error of json.load is not
\* caught and leaves the function as an exception.
load_notified_mrs(f, readable) ==
    IF ~f.exists THEN [raised |-> FALSE, value |-> {}]
    ELSE IF ~readable \/ ~json_loads_ok(f.text) THEN [raised |-> TRUE, value |-> {}]
    ELSE [raised |-> FALSE, value |-> SetOf(json_load(f.text))]

\* What a load of the file gives a reader that can open it.
Persisted(f) == load_notified_mrs(f, TRUE)

(***************************************************************************)
(* The tracker's responses.                                                *)
(***************************************************************************)

\* The iids of a set in the tracker's default order (newest first).
RECURSIVE NewestFirst(_)
NewestFirst(s) ==
    IF s = {} THEN <<>>
    ELSE LET m == CHOOSE x \in s : \A y \in s : y <= x
         IN  <<m>> \o NewestFirst(s \ {m})

\* The first page of a listing.
Page(list) == SubSeq(list, 1, IF Len(list) < PerPage THEN Len(list) ELSE PerPage)

\* GET merge_requests?state=opened&per_page=100: the first page of the opened
\* merge requests, each with its iid and whether its labels hold review:ready.
get_all_open_mrs(t, o) ==
    LET open == {i \in Ids : t[i] \in {"opened+ready", "opened"}} \cup OtherOpened(o)
        order == Page(NewestFirst(open))
    IN  [k \in 1..Len(order) |->
            [iid |-> order[k], ready |-> order[k] \in Ids /\ t[order[k]] = "opened+ready"]]

IidsWhere(resp, want) == {resp[k].iid : k \in {j \in 1..Len(resp) : resp[j].ready = want}}

get_mrs_without_ready_label(t, o) == IidsWhere(get_all_open_mrs(t, o), FALSE)

\* GET merge_requests?state=closed&per_page=100: the iids of the first page
\* of the closed merge requests.
get_closed_mrs(t, o) ==
    SetOf(Page(NewestFirst({i \in Ids : t[i] = "closed"} \cup OtherClosed(o))))

\* GET merge_requests?iids[]=...&per_page=100: an empty iids list sends no
\* filter, and the tracker then answers with the first page of the merge
\* requests of every iid; the merged ones of the page are kept.
get_merged_mrs(t, o, iids) ==
    LET asked == IF iids = {} THEN Ids \cup OtherClosed(o) \cup OtherOpened(o) ELSE iids
    IN  {i \in SetOf(Page(NewestFirst(asked))) \cap Ids : t[i] = "merged"}

\* Mutant: the label is not looked at (every opened merge request is taken).
AllOf(resp) == [k \in 1..Len(resp) |-> resp[k].iid]

\* The iids of the ready merge requests of a response, in its order.
ReadyOf(resp) ==
    LET sel == SelectSeq(resp, LAMBDA mr : mr.ready)
    IN  [k \in 1..Len(sel) |-> sel[k].iid]

\* Mutant: the merged merge requests are left out of the removal set.
to_clean_without_merged(closed, unready, merged) == closed \cup unready

\* Line 69.
to_clean(closed, unready, merged) == closed \cup unready \cup merged

\* Mutant: a cleanup that removes an iid starts the set afresh.
clean_result_reset(notified, closed, unready, merged) ==
    IF notified \cap (closed \cup unready \cup merged) = {} THEN notified ELSE {}

\* Line 71.
clean_result(notified, closed, unready, merged) == notified \ to_clean(closed, unready, merged)

(***************************************************************************)
(* State.                                                                  *)
(***************************************************************************)
VARIABLES
    pc,            \* where the process is: see the actions
    notified_mrs,  \* main's notified_mrs
    file,          \* STORAGE_FILE
    tracker,       \* the tracker's merge requests
    closed_mrs,    \* clean_notified_mrs' closed_mrs, kept to the end of the cycle
    merged_mrs,    \* clean_notified_mrs' merged_mrs, kept to the end of the cycle
    unready_mrs,   \* clean_notified_mrs' unready_mrs, kept to the end of the cycle
    ready_mrs,     \* the iids of ready_mrs the for loop has not finished with
    delivered,     \* per iid, the notifications the room received from this
                   \* process run since the iid was last removed from notified_mrs
    e,             \* where the exception that ended the cycle was raised
                   \* ("none" when the cycle has raised nothing)
    script,        \* the fetch results replayed to the process, and the round of
                   \* the replay (round 0: no replay, the tracker is read)
    others,        \* the project's merge requests besides those of Ids
    CHECK_INTERVAL \* the configured poll interval, in seconds

vars == <<pc, notified_mrs, file, tracker, closed_mrs, merged_mrs, unready_mrs,
          ready_mrs, delivered, e, script, others, CHECK_INTERVAL>>

locals == <<closed_mrs, merged_mrs, unready_mrs, ready_mrs>>

NoneDelivered == [i \in Ids |-> 0]

NoScript == [round |-> 0, closed |-> {}, merged |-> {}, unready |-> {}, ready |-> {},
             first |-> {}, merged1 |-> {}]

\* Mutant: the exception is not caught and leaves main.
except_reraise == "halted"

\* Where an exception raised inside the try block takes the process: it is
\* caught at line 114 and the loop sleeps 60 seconds.  The values the cycle
\* had fetched are not read again (the next cycle fetches anew).
except_handler == "sleep_err"

\* The process starts with no store file, in a project whose merge requests
\* all fit in one page, with the default interval.  (A response cut at the
\* page is, for the process, the complete response of a tracker with fewer
\* merge requests, and the tracker of this specification changes freely
\* between the fetches; SpecProject has the larger projects.)
Init ==
    /\ pc = "load"
    /\ notified_mrs = {}
    /\ file = NoFile
    /\ tracker \in TrackerStates
    /\ closed_mrs = {}
    /\ merged_mrs = {}
    /\ unready_mrs = {}
    /\ ready_mrs = <<>>
    /\ delivered = NoneDelivered
    /\ e = "none"
    /\ script = NoScript
    /\ others = NoOthers
    /\ CHECK_INTERVAL = DEFAULT_CHECK_INTERVAL

(***************************************************************************)
(* main, line 86: the load before the loop.                                *)
(***************************************************************************)
Load ==
    /\ pc = "load"
    /\ \E readable \in BOOLEAN :
          LET got == load_notified_mrs(file, readable)
          IN  IF got.raised
              THEN pc' = "halted" /\ UNCHANGED notified_mrs
              ELSE pc' = "get_closed" /\ notified_mrs' = got.value
    /\ UNCHANGED <<file, locals, delivered>>
    /\ UNCHANGED <<e, tracker, script, others, CHECK_INTERVAL>>

(***************************************************************************)
(* clean_notified_mrs, lines 64-71, and the assignment of line 93.         *)
(***************************************************************************)
GetClosed(t) ==
    /\ pc = "get_closed"
    /\ closed_mrs' = get_closed_mrs(t, others)
    /\ pc' = "get_merged"
    /\ UNCHANGED <<notified_mrs, file, merged_mrs, unready_mrs, ready_mrs, delivered>>
    /\ UNCHANGED <<e, tracker, script, others, CHECK_INTERVAL>>

GetMerged(t) ==
    /\ pc = "get_merged"
    /\ merged_mrs' = get_merged_mrs(t, others, notified_mrs)
    /\ pc' = "get_unready"
    /\ UNCHANGED <<notified_mrs, file, closed_mrs, unready_mrs, ready_mrs, delivered>>
    /\ UNCHANGED <<e, tracker, script, others, CHECK_INTERVAL>>

GetUnready(t) ==
    /\ pc = "get_unready"
    /\ LET unready == get_mrs_without_ready_label(t, others)
           kept == clean_result(notified_mrs, closed_mrs, unready, merged_mrs)
       IN  /\ unready_mrs' = unready
           /\ notified_mrs' = kept
           /\ delivered' = [i \in Ids |-> IF i \in notified_mrs \ kept THEN 0 ELSE delivered[i]]
    /\ pc' = "save_clean"
    /\ UNCHANGED <<file, closed_mrs, merged_mrs, ready_mrs>>
    /\ UNCHANGED <<e, tracker, script, others, CHECK_INTERVAL>>

\* Mutant: a fetch that raises also resets the notified set.
FetchFailsEmptiesSet ==
    /\ pc \in {"get_closed", "get_merged", "get_unready", "get_open"}
    /\ pc' = except_handler
    /\ e' = pc
    /\ notified_mrs' = {}
    /\ closed_mrs' = {}
    /\ merged_mrs' = {}
    /\ unready_mrs' = {}
    /\ ready_mrs' = <<>>
    /\ UNCHANGED <<file, delivered, tracker, script, others, CHECK_INTERVAL>>

\* A fetch raises (network error, timeout, a body that is not the expected
\* JSON): nothing is assigned.
FetchFails ==
    /\ pc \in {"get_closed", "get_merged", "get_unready", "get_open"}
    /\ pc' = except_handler
    /\ e' = pc
    /\ closed_mrs' = {}
    /\ merged_mrs' = {}
    /\ unready_mrs' = {}
    /\ ready_mrs' = <<>>
    /\ UNCHANGED <<notified_mrs, file, delivered>>
    /\ UNCHANGED <<tracker, script, others, CHECK_INTERVAL>>

(***************************************************************************)
(* save_notified_mrs, lines 28-30, called at lines 94 and 109.             *)
(***************************************************************************)
\* open(STORAGE_FILE, 'w') truncates the file.
SaveOpen ==
    /\ pc \in {"save_clean", "save_add"}
    /\ file' = FileWith(<<>>)
    /\ pc' = IF pc = "save_clean" THEN "write_clean" ELSE "write_add"
    /\ UNCHANGED <<notified_mrs, locals, delivered>>
    /\ UNCHANGED <<e, tracker, script, others, CHECK_INTERVAL>>

\* open raises (permission denied, read-only file system): the file is as it was.
SaveOpenFails ==
    /\ pc \in {"save_clean", "save_add"}
    /\ pc' = except_handler
    /\ e' = pc
    /\ closed_mrs' = {}
    /\ merged_mrs' = {}
    /\ unready_mrs' = {}
    /\ ready_mrs' = <<>>
    /\ UNCHANGED <<notified_mrs, file, delivered>>
    /\ UNCHANGED <<tracker, script, others, CHECK_INTERVAL>>

\* Mutant: the save writes the set without its last iid.
SavedTextsStale(notified) ==
    {json_dump(l) : l \in ListsOf(notified \ {m \in notified : \A n \in notified : n <= m})}

\* The text save_notified_mrs writes: json.dump(list(notified_mrs)).
SavedTexts(notified) == {json_dump(l) : l \in ListsOf(notified)}

\* json.dump and the close of the with block: the whole text is in the file.
\* After the save of line 109 the for loop goes on with the next snapshot.
SaveWrite ==
    /\ pc \in {"write_clean", "write_add"}
    /\ \E text \in SavedTexts(notified_mrs) : file' = FileWith(text)
    /\ pc' = IF pc = "write_clean" THEN "get_open" ELSE "for"
    /\ ready_mrs' = IF pc = "write_clean" THEN ready_mrs ELSE Tail(ready_mrs)
    /\ UNCHANGED <<notified_mrs, closed_mrs, merged_mrs, unready_mrs, delivered>>
    /\ UNCHANGED <<e, tracker, script, others, CHECK_INTERVAL>>

\* What a write that raises leaves in the file: a strict prefix of the text.
\* Every strict prefix lacks the closing bracket and json.load refuses them
\* all alike, so two stand for them: nothing, and the first token.
PartialTexts(text) == {SubSeq(text, 1, n) : n \in {0, 1}}

\* The write raises (disk full, I/O error): a part of the text is in the file.
SaveWriteFails ==
    /\ pc \in {"write_clean", "write_add"}
    /\ \E text \in SavedTexts(notified_mrs) : \E part \in PartialTexts(text) :
          file' = FileWith(part)
    /\ pc' = except_handler
    /\ e' = pc
    /\ closed_mrs' = {}
    /\ merged_mrs' = {}
    /\ unready_mrs' = {}
    /\ ready_mrs' = <<>>
    /\ UNCHANGED <<notified_mrs, delivered>>
    /\ UNCHANGED <<tracker, script, others, CHECK_INTERVAL>>

(***************************************************************************)
(* main, lines 98-109: the notify phase.                                   *)
(***************************************************************************)
GetOpen(t) ==
    /\ pc = "get_open"
    /\ ready_mrs' = ReadyOf(get_all_open_mrs(t, others))
    /\ pc' = "for"
    /\ UNCHANGED <<notified_mrs, file, closed_mrs, merged_mrs, unready_mrs, delivered>>
    /\ UNCHANGED <<e, tracker, script, others, CHECK_INTERVAL>>

\* Mutant: the for loop notifies for no merge request.
must_notify_never(mr_id, notified) == FALSE

\* Mutant: the for loop notifies for every ready merge request.
must_notify_always(mr_id, notified) == TRUE

\* Whether the for loop notifies for mr_id (line 104).
must_notify(mr_id, notified) == mr_id \notin notified

\* The head of the for loop and the test of line 104.
ForNext ==
    /\ pc = "for"
    /\ IF ready_mrs = <<>>
       THEN pc' = "sleep_ok" /\ UNCHANGED ready_mrs
       ELSE IF must_notify(Head(ready_mrs), notified_mrs)
            THEN pc' = "send" /\ UNCHANGED ready_mrs
            ELSE pc' = "for" /\ ready_mrs' = Tail(ready_mrs)
    /\ UNCHANGED <<notified_mrs, file, closed_mrs, merged_mrs, unready_mrs, delivered>>
    /\ UNCHANGED <<e, tracker, script, others, CHECK_INTERVAL>>

\* Mutant: the set is not saved after the addition (the save is left to the
\* next cycle's cleanup).
SendWithoutSave ==
    /\ pc = "send"
    /\ delivered' = [delivered EXCEPT ![Head(ready_mrs)] = @ + 1]
    /\ notified_mrs' = notified_mrs \cup {Head(ready_mrs)}
    /\ pc' = "for"
    /\ ready_mrs' = Tail(ready_mrs)
    /\ UNCHANGED <<file, closed_mrs, merged_mrs, unready_mrs, e, tracker, script, others, CHECK_INTERVAL>>

\* send_matrix_message returns (the room has the message) and line 108 adds
\* the iid: nothing can raise between the two.
Send ==
    /\ pc = "send"
    /\ delivered' = [delivered EXCEPT ![Head(ready_mrs)] = @ + 1]
    /\ notified_mrs' = notified_mrs \cup {Head(ready_mrs)}
    /\ pc' = "save_add"
    /\ UNCHANGED <<file, locals>>
    /\ UNCHANGED <<e, tracker, script, others, CHECK_INTERVAL>>

\* Mutant: the iid is added although the send raised.
SendFailsButAdds ==
    /\ pc = "send"
    /\ pc' = except_handler
    /\ e' = pc
    /\ notified_mrs' = notified_mrs \cup {Head(ready_mrs)}
    /\ closed_mrs' = {}
    /\ merged_mrs' = {}
    /\ unready_mrs' = {}
    /\ ready_mrs' = <<>>
    /\ UNCHANGED <<file, delivered>>
    /\ UNCHANGED <<tracker, script, others, CHECK_INTERVAL>>

\* send_matrix_message raises (join_room or send_html): no message.
SendFails ==
    /\ pc = "send"
    /\ pc' = except_handler
    /\ e' = pc
    /\ closed_mrs' = {}
    /\ merged_mrs' = {}
    /\ unready_mrs' = {}
    /\ ready_mrs' = <<>>
    /\ UNCHANGED <<notified_mrs, file, delivered>>
    /\ UNCHANGED <<tracker, script, others, CHECK_INTERVAL>>

(***************************************************************************)
(* main, lines 112 and 116: the sleep, then the next pass of while True.   *)
(***************************************************************************)
Sleep ==
    /\ pc \in {"sleep_ok", "sleep_err"}
    /\ pc' = "get_closed"
    /\ closed_mrs' = {}
    /\ merged_mrs' = {}
    /\ unready_mrs' = {}
    /\ ready_mrs' = <<>>
    /\ e' = "none"
    /\ UNCHANGED <<notified_mrs, file, delivered>>
    /\ script' = IF script.round = 1
                 THEN [script EXCEPT !.round = 2, !.first = notified_mrs, !.merged1 = merged_mrs]
                 ELSE script
    /\ UNCHANGED <<tracker, others, CHECK_INTERVAL>>

(***************************************************************************)
(* The environment.                                                        *)
(***************************************************************************)
\* A merge request is closed, merged, reopened, labelled or unlabelled.  The
\* process sees the tracker only through its requests, so a change is taken
\* at the point where it is first observable: before a request.
TrackerChange ==
    /\ pc \in {"get_closed", "get_merged", "get_unready", "get_open"}
    /\ \E i \in Ids : \E s \in Statuses \ {tracker[i]} :
          tracker' = [tracker EXCEPT ![i] = s]
    /\ UNCHANGED <<pc, notified_mrs, file, locals, delivered, e, script, others, CHECK_INTERVAL>>

\* The process is killed (or has halted) and is started again: only the
\* file survives.
Restart ==
    /\ pc # "load"
    /\ pc' = "load"
    /\ notified_mrs' = {}
    /\ closed_mrs' = {}
    /\ merged_mrs' = {}
    /\ unready_mrs' = {}
    /\ ready_mrs' = <<>>
    /\ delivered' = NoneDelivered
    /\ e' = "none"
    /\ UNCHANGED <<file, tracker, script, others, CHECK_INTERVAL>>

Next ==
    \/ Load
    \/ GetClosed(tracker)
    \/ GetMerged(tracker)
    \/ GetUnready(tracker)
    \/ SaveOpen
    \/ SaveWrite
    \/ GetOpen(tracker)
    \/ ForNext
    \/ Send
    \/ Sleep
    \/ FetchFails
    \/ SaveOpenFails
    \/ SaveWriteFails
    \/ SendFails
    \/ TrackerChange
    \/ Restart

Spec == Init /\ [][Next]_vars

(***************************************************************************)
(* The loop with no kill of the process: every step the process can take   *)
(* is taken sooner or later (a call returns or raises, a sleep ends).      *)
(***************************************************************************)
Process ==
    \/ Load
    \/ GetClosed(tracker)
    \/ GetMerged(tracker)
    \/ GetUnready(tracker)
    \/ SaveOpen
    \/ SaveWrite
    \/ GetOpen(tracker)
    \/ ForNext
    \/ Send
    \/ Sleep
    \/ FetchFails
    \/ SaveOpenFails
    \/ SaveWriteFails
    \/ SendFails

NextLoop == Process \/ TrackerChange

SpecLoop == Init /\ [][NextLoop]_vars /\ WF_vars(Process)

(***************************************************************************)
(* Two cycles against the same fetch results: the store holds any saved    *)
(* set, nothing raises, and the tracker is in the same state at the same   *)
(* fetch of both cycles (it changes between the fetches of a cycle and     *)
(* changes back before the next cycle).                                    *)
(***************************************************************************)
Scripts ==
    [round : {1}, closed : SUBSET Ids, merged : SUBSET Ids, unready : SUBSET Ids,
     ready : SUBSET Ids, first : {{}}, merged1 : {{}}]

\* A tracker state in which exactly the merge requests of s have the status.
TrackerWith(s, status, other) == [i \in Ids |-> IF i \in s THEN status ELSE other]

\* The tracker's state at the fetch the process makes at p.
ScriptedTracker(p) ==
    CASE p = "get_closed" -> TrackerWith(script.closed, "closed", "opened")
      [] p = "get_merged" -> TrackerWith(script.merged, "merged", "opened")
      [] p = "get_unready" -> TrackerWith(script.unready, "opened", "closed")
      [] p = "get_open" -> TrackerWith(script.ready, "opened+ready", "closed")
      [] OTHER -> tracker

StoredFiles == {NoFile} \cup {FileWith(text) : text \in UNION {SavedTexts(s) : s \in SUBSET Ids}}

InitReplay ==
    /\ pc = "load"
    /\ notified_mrs = {}
    /\ file \in StoredFiles
    /\ script \in Scripts
    /\ tracker = TrackerWith(script.closed, "closed", "opened")
    /\ closed_mrs = {}
    /\ merged_mrs = {}
    /\ unready_mrs = {}
    /\ ready_mrs = <<>>
    /\ delivered = NoneDelivered
    /\ e = "none"
    /\ others = NoOthers
    /\ CHECK_INTERVAL = DEFAULT_CHECK_INTERVAL

\* The tracker moves to the state the next fetch is to see.
TrackerReplay ==
    /\ tracker # ScriptedTracker(pc)
    /\ tracker' = ScriptedTracker(pc)
    /\ UNCHANGED <<pc, notified_mrs, file, locals, delivered, e, script, others, CHECK_INTERVAL>>

\* The sleep between the first cycle and the second.
SleepReplay == script.round = 1 /\ Sleep

NextReplay ==
    \/ Load
    \/ tracker = ScriptedTracker(pc) /\ GetClosed(tracker)
    \/ tracker = ScriptedTracker(pc) /\ GetMerged(tracker)
    \/ tracker = ScriptedTracker(pc) /\ GetUnready(tracker)
    \/ SaveOpen
    \/ SaveWrite
    \/ tracker = ScriptedTracker(pc) /\ GetOpen(tracker)
    \/ ForNext
    \/ Send
    \/ SleepReplay
    \/ TrackerReplay

SpecReplay == InitReplay /\ [][NextReplay]_vars

(***************************************************************************)
(* The loop in a project of any size, with any configured interval: the    *)
(* project has other merge requests, newer than those of Ids, which fill   *)
(* the first page of the tracker's responses before them.                  *)
(***************************************************************************)
InitProject ==
    /\ pc = "load"
    /\ notified_mrs = {}
    /\ file = NoFile
    /\ tracker \in TrackerStates
    /\ closed_mrs = {}
    /\ merged_mrs = {}
    /\ unready_mrs = {}
    /\ ready_mrs = <<>>
    /\ delivered = NoneDelivered
    /\ e = "none"
    /\ script = NoScript
    /\ others \in OthersStates
    /\ CHECK_INTERVAL \in Intervals

SpecProject == InitProject /\ [][NextLoop]_vars

\* The argument of the time.sleep the process is in at p: CHECK_INTERVAL at
\* line 112, 60 at line 116.
sleep_seconds(p, interval) == IF p = "sleep_ok" THEN interval ELSE ERROR_SLEEP

(***************************************************************************)
(* Properties.                                                             *)
(***************************************************************************)

\* C1: within one run of the process, every interval in which an iid is in
\* notified_mrs has exactly one delivered notification for the iid: an iid
\* outside the set has none pending, an iid inside has at most one (none when
\* the load put it there), the step that adds an iid is the step that
\* delivers its one notification, and no notification is delivered for an
\* iid that is in the set.
C1_OneNotificationPerInterval ==
    /\ [](\A i \in Ids : IF i \in notified_mrs THEN delivered[i] <= 1 ELSE delivered[i] = 0)
    /\ [][\A i \in Ids :
            /\ (pc # "load" /\ i \notin notified_mrs /\ i \in notified_mrs')
                  => (delivered[i] = 0 /\ delivered'[i] = 1)
            /\ (delivered'[i] > delivered[i]) => (i \notin notified_mrs /\ i \in notified_mrs')
            /\ (i \in notified_mrs /\ i \in notified_mrs') => delivered'[i] = delivered[i]]_vars

\* C1 witness: a later cycle's for loop is at an iid that is in the set with
\* its one notification delivered in an earlier cycle of this run.
C1_Witness ==
    /\ pc = "for"
    /\ ready_mrs # <<>>
    /\ Head(ready_mrs) \in notified_mrs
    /\ delivered[Head(ready_mrs)] = 1

\* C2: after the cleanup phase (clean_notified_mrs, then the save), no iid
\* reported closed, merged or opened without the ready label is in
\* notified_mrs, in memory or in the file.
C2_CleanupRemoves ==
    LET reported == closed_mrs \cup merged_mrs \cup unready_mrs
    IN  /\ pc \in {"save_clean", "write_clean", "get_open"} => notified_mrs \cap reported = {}
        /\ pc = "get_open" =>
              /\ ~Persisted(file).raised
              /\ Persisted(file).value \cap reported = {}

\* C2 witness: the cleanup is over, an iid of the set was reported merged (the
\* set was not empty, so the fetch by iids asked for its iids only) and
\* another iid was kept.
C2_Witness ==
    /\ pc = "get_open"
    /\ notified_mrs # {}
    /\ merged_mrs # {}

\* C3: two consecutive successful cycles get the same fetch results (the
\* replayed closed, opened-unready and opened-ready iids, and the same answer
\* to the fetch by iids): the second cycle sends no notification (it is never
\* just past a send) and ends with the set the first cycle ended with.
C3_Idempotent ==
    (script.round = 2 /\ merged_mrs = script.merged1) =>
        /\ pc # "save_add"
        /\ pc = "sleep_ok" => notified_mrs = script.first

\* C3, for fetch results in which no iid is both opened-ready and reported
\* closed, merged or opened-unready: the same statement.
C3_IdempotentDisjoint ==
    (script.ready \cap (script.closed \cup script.merged \cup script.unready) = {}) => C3_Idempotent

\* C4: when the fetch of the closed merge requests raises, the process goes
\* to the 60 second sleep with notified_mrs, the file and the delivered
\* notifications as they were before the cycle, and from that sleep it goes
\* to a new cycle with all three still unchanged.
C4_ClosedFetchFailure ==
    /\ [][(pc = "get_closed" /\ e' = "get_closed") =>
            /\ pc' = "sleep_err"
            /\ UNCHANGED <<notified_mrs, file, delivered>>]_vars
    /\ [][(pc = "sleep_err" /\ e = "get_closed" /\ pc' \notin {"sleep_err", "load"}) =>
            /\ pc' = "get_closed"
            /\ UNCHANGED <<notified_mrs, file, delivered>>]_vars

\* C4 witness: the closed fetch of a cycle that started with a saved,
\* non-empty set has raised.
C4_Witness ==
    /\ pc = "sleep_err"
    /\ e = "get_closed"
    /\ notified_mrs # {}
    /\ Persisted(file) = [raised |-> FALSE, value |-> notified_mrs]

InCycle ==
    {"get_closed", "get_merged", "get_unready", "save_clean", "write_clean", "get_open",
     "for", "send", "save_add", "write_add"}

\* C5: once in the loop the process stays in it, every cycle ends in one of
\* the two sleeps, whatever raised in it, and every sleep is followed by a
\* new cycle.
C5_LoopNeverEnds ==
    /\ [](pc \in InCycle => <>(pc \in {"sleep_ok", "sleep_err"}))
    /\ [](pc \in {"sleep_ok", "sleep_err"} => <>(pc = "get_closed"))
    /\ [][(pc \in InCycle \cup {"sleep_ok", "sleep_err"})
            => (pc' \in InCycle \cup {"sleep_ok", "sleep_err"})]_vars

\* C5 witness: a cycle aborted by a failed write of the store is followed by
\* a new cycle (the set in memory is not the set in the file).
C5_Witness ==
    /\ pc = "get_closed"
    /\ Persisted(file).raised

\* C6: a save of an addition that fails leaves the added iid out of
\* notified_mrs, and a save of the cleanup result that fails leaves
\* notified_mrs equal to the set the file holds.
C6_MemoryFollowsStore ==
    /\ [][(pc \in {"save_add", "write_add"} /\ e' = pc)
            => Head(ready_mrs) \notin notified_mrs']_vars
    /\ [][(pc \in {"save_clean", "write_clean"} /\ e' = pc)
            => Persisted(file') = [raised |-> FALSE, value |-> notified_mrs']]_vars

\* C6, the addition alone: a save of an addition that fails leaves the added
\* iid out of notified_mrs.
C6_AdditionNotKept ==
    [][(pc \in {"save_add", "write_add"} /\ e' = pc) => Head(ready_mrs) \notin notified_mrs']_vars

\* The iids with a notification delivered by this process run and not removed
\* from notified_mrs since.
DeliveredNow == {i \in Ids : delivered[i] >= 1}

\* C7: when a notification is about to be sent, the file holds every iid of
\* notified_mrs and every iid delivered earlier and not removed since; and at
\* any time a restarted process would find in the file all the delivered iids
\* but at most one (the one whose save has not finished).
C7_SavedBeforeNextSend ==
    /\ pc = "send" =>
          /\ ~Persisted(file).raised
          /\ (DeliveredNow \cup notified_mrs) \subseteq Persisted(file).value
    /\ ~Persisted(file).raised => Cardinality(DeliveredNow \ Persisted(file).value) <= 1

\* C7 witness: a second notification of this run is about to be sent.
C7_Witness ==
    /\ pc = "send"
    /\ DeliveredNow # {}

\* C8: at every point, a save in progress included, a load of the file gives
\* a complete set: it does not raise, and during the save of an addition it
\* gives the set without the added iid or the set with it.
C8_SaveAtomic ==
    /\ ~Persisted(file).raised
    /\ pc = "write_add" =>
          Persisted(file).value \in {notified_mrs \ {Head(ready_mrs)}, notified_mrs}

\* C9: the load gives the empty set for a missing file and otherwise the set
\* the file holds; a file that cannot be read or parsed halts the process;
\* a halted process makes no fetch, sends nothing and leaves the file alone.
C9_LoadHaltsOnReadError ==
    /\ [][(pc = "load" /\ pc' = "get_closed") =>
            IF file.exists
            THEN json_loads_ok(file.text) /\ notified_mrs' = SetOf(json_load(file.text))
            ELSE notified_mrs' = {}]_vars
    /\ [][(pc = "load" /\ file.exists /\ ~json_loads_ok(file.text) /\ pc' # "load")
            => pc' = "halted"]_vars
    /\ [][(pc = "load" /\ pc' = "halted") =>
            (file.exists /\ UNCHANGED <<notified_mrs, file, delivered, locals>>)]_vars
    /\ [][(pc = "halted") =>
            (pc' \in {"halted", "load"} /\ UNCHANGED <<file, delivered, locals>>)]_vars

\* C9 witness: the process has halted on a store file that does not parse.
C9_Witness ==
    /\ pc = "halted"
    /\ file.exists
    /\ ~json_loads_ok(file.text)

\* C10: a load after a successful save of S gives S, for every set S of iids
\* and every order the save writes it in; a missing file loads as the empty
\* set, as a saved empty set does (both do not depend on the state and are
\* evaluated where the process is about to load); and right after each save
\* of the process the file loads as notified_mrs.
C10_RoundTrip ==
    /\ pc = "load" =>
          /\ \A s \in SUBSET Ids : \A text \in SavedTexts(s) :
                Persisted(FileWith(text)) = [raised |-> FALSE, value |-> s]
          /\ Persisted(NoFile) = [raised |-> FALSE, value |-> {}]
    /\ pc \in {"get_open", "for"} => Persisted(file) = [raised |-> FALSE, value |-> notified_mrs]

\* C10 witness: a set of two iids has just been saved.
C10_Witness ==
    /\ pc = "get_open"
    /\ Cardinality(notified_mrs) >= 2
    /\ file.exists

\* C11: an iid the cleanup fetches of a cycle reported closed or merged gets
\* no notification in that cycle, also when the notify-phase fetch reports it
\* opened with review:ready (the process is never just past a send for such
\* an iid), and it is not in notified_mrs when the cycle ends.
C11_RemovalWins ==
    /\ pc \in {"save_add", "write_add"} => Head(ready_mrs) \notin (closed_mrs \cup merged_mrs)
    /\ pc = "sleep_ok" => notified_mrs \cap (closed_mrs \cup merged_mrs) = {}

\* C14: in every cycle the iids the notify-phase fetch reported opened with
\* review:ready (those the for loop still has to handle included) are
\* disjoint from the cycle's removal set: the iids reported closed, merged or
\* opened without the label, whatever the tracker did between the fetches.
C14_ReadyDisjointFromRemoval ==
    pc \in {"for", "send", "save_add", "write_add"} =>
        SetOf(ready_mrs) \cap to_clean(closed_mrs, unready_mrs, merged_mrs) = {}

\* The iids a load of the file gives (none when the load raises).
PersistedIds(f) == IF Persisted(f).raised THEN {} ELSE Persisted(f).value

\* C12: from a missing store on, an iid gets into notified_mrs or into the
\* file only after it was fetched as opened with review:ready and its
\* notification was sent without error.  Step by step: the open fetch puts
\* into ready_mrs only iids the tracker has as opened with review:ready, the
\* for loop never adds to ready_mrs, an iid enters notified_mrs only by the
\* step that delivers the notification for the head of ready_mrs (or by the
\* load, from the file), and an iid enters the file only from notified_mrs.
C12_OnlyNotifiedReadyIds ==
    /\ [][(pc = "get_open" /\ pc' = "for")
            => \A i \in SetOf(ready_mrs') : tracker[i] = "opened+ready"]_vars
    /\ [][(pc \in {"for", "send", "save_add", "write_add"})
            => SetOf(ready_mrs') \subseteq SetOf(ready_mrs)]_vars
    /\ [][\A i \in Ids : (i \notin notified_mrs /\ i \in notified_mrs') =>
            \/ pc = "load" /\ i \in PersistedIds(file)
            \/ /\ pc = "send"
               /\ pc' = "save_add"
               /\ i = Head(ready_mrs)
               /\ delivered'[i] = delivered[i] + 1]_vars
    /\ [][(file' # file) => PersistedIds(file') \subseteq PersistedIds(file) \cup notified_mrs]_vars

\* C12 witness: a restarted process has loaded from the file an iid that an
\* earlier run notified and saved.
C12_Witness ==
    /\ pc = "get_closed"
    /\ notified_mrs # {}
    /\ delivered = NoneDelivered
    /\ PersistedIds(file) = notified_mrs

\* C13: whenever the for loop has before it an iid that the notify-phase
\* fetch reported opened with review:ready and that is not in notified_mrs
\* (it has no delivered notification then, whether it never was in the set or
\* was removed from it by a cleanup), the cycle either is aborted by a call
\* that raises or ends with the iid in notified_mrs and exactly one
\* notification delivered for it.
C13_AbsentReadyIsNotifiedOnce ==
    \A i \in Ids :
        (pc = "for" /\ i \in SetOf(ready_mrs) /\ i \notin notified_mrs /\ delivered[i] = 0)
            ~> \/ pc = "sleep_err"
               \/ pc = "sleep_ok" /\ i \in notified_mrs /\ delivered[i] = 1

\* C13 witness: a cycle in which nothing raised has ended with a notified iid
\* in the set.
C13_Witness ==
    /\ pc = "sleep_ok"
    /\ \E i \in notified_mrs : delivered[i] = 1

\* C15: when the send for an iid raises, the iid is not in notified_mrs and
\* not in the file, before the send and after it; nothing is delivered, the
\* rest of ready_mrs is dropped and the process goes to the 60 second sleep;
\* that sleep changes neither the set nor the file, so the next cycle starts
\* with the iid outside the set and tests it again at line 104.
C15_SendFailure ==
    /\ [][(pc = "send" /\ e' = "send") =>
            /\ Head(ready_mrs) \notin notified_mrs' \cup PersistedIds(file')
            /\ pc' = "sleep_err"
            /\ ready_mrs' = <<>>
            /\ UNCHANGED <<notified_mrs, file, delivered>>]_vars
    /\ [][(pc = "sleep_err" /\ e = "send" /\ pc' # "load") =>
            /\ pc' \in {"sleep_err", "get_closed"}
            /\ UNCHANGED <<notified_mrs, file, delivered>>]_vars

\* C15 witness: a send has raised in a cycle that had already notified
\* another iid.
C15_Witness ==
    /\ pc = "sleep_err"
    /\ e = "send"
    /\ notified_mrs # {}
    /\ notified_mrs # Ids

\* C16: a call that raises undoes nothing.  The step that raises and the 60
\* second sleep leave notified_mrs as it was; and after a cycle aborted past
\* its cleanup save the file can be loaded, holds no iid the cleanup removed
\* (no iid outside notified_mrs) and holds every iid of notified_mrs but at
\* most the one whose save raised.
C16_ProgressKept ==
    /\ [][(e = "none" /\ e' # "none") => notified_mrs' = notified_mrs]_vars
    /\ [][(pc = "sleep_err" /\ pc' = "get_closed") => UNCHANGED <<notified_mrs, file>>]_vars
    /\ []((pc = "sleep_err" /\ e \in {"get_open", "send", "save_add", "write_add"}) =>
            /\ ~Persisted(file).raised
            /\ PersistedIds(file) \subseteq notified_mrs
            /\ Cardinality(notified_mrs \ PersistedIds(file)) <= 1)

\* C16, in memory alone: the step that raises and the 60 second sleep leave
\* notified_mrs as it was.
C16_MemoryKept ==
    /\ [][(e = "none" /\ e' # "none") => notified_mrs' = notified_mrs]_vars
    /\ [][(pc = "sleep_err" /\ pc' = "get_closed") => UNCHANGED notified_mrs]_vars

\* C19: when the process sleeps after a cycle in which nothing raised, a load
\* of the file gives notified_mrs.
C19_IdleStoreEqualsMemory ==
    pc = "sleep_ok" => Persisted(file) = [raised |-> FALSE, value |-> notified_mrs]

\* C19 witness: a cycle that removed one iid and notified another has ended.
C19_Witness ==
    /\ pc = "sleep_ok"
    /\ \E i \in notified_mrs : delivered[i] = 1
    /\ closed_mrs \cup merged_mrs \cup unready_mrs # {}

\* C20: the cleanup (line 93) adds no iid and removes only iids reported
\* closed, merged or opened without the label; the fetches and saves of the
\* cleanup and the sleeps change no membership; the notify phase removes no
\* iid, whether or not the iid is in the list of the open fetch.
C20_PhasesFrame ==
    /\ [][(pc = "get_unready" /\ pc' = "save_clean") =>
            /\ notified_mrs' \subseteq notified_mrs
            /\ notified_mrs \ to_clean(closed_mrs', unready_mrs', merged_mrs') \subseteq notified_mrs']_vars
    /\ [][(pc = "get_unready" /\ pc' = "sleep_err") => notified_mrs' = notified_mrs]_vars
    /\ [][(pc \in {"get_closed", "get_merged", "save_clean", "write_clean", "sleep_ok", "sleep_err"}
             /\ pc' # "load") => notified_mrs' = notified_mrs]_vars
    /\ [][(pc \in {"get_open", "for", "send", "save_add", "write_add"} /\ pc' # "load")
            => notified_mrs \subseteq notified_mrs']_vars

\* C20 witness: a cycle has ended with an iid in the set that no fetch of the
\* cycle reported: it is not in the removal set, and it was closed when the
\* open merge requests were fetched for the notify phase.
C20_Witness ==
    /\ pc = "sleep_ok"
    /\ \E i \in notified_mrs :
          /\ i \notin to_clean(closed_mrs, unready_mrs, merged_mrs)
          /\ tracker[i] = "closed"

\* C17: every fetch is complete.  Every closed merge request is in the
\* result of the closed fetch, every opened one without the label in the
\* result of the cleanup's open fetch, and every opened one with the label in
\* the list of the notify phase's open fetch, however many merge requests
\* the project has.
C17_FetchesComplete ==
    /\ [][(pc = "get_closed" /\ pc' = "get_merged")
            => {i \in Ids : tracker[i] = "closed"} \subseteq closed_mrs']_vars
    /\ [][(pc = "get_unready" /\ pc' = "save_clean")
            => {i \in Ids : tracker[i] = "opened"} \subseteq unready_mrs']_vars
    /\ [][(pc = "get_open" /\ pc' = "for")
            => {i \in Ids : tracker[i] = "opened+ready"} \subseteq SetOf(ready_mrs')]_vars

\* C17, for a project whose merge requests of each kind fit in one page: the
\* same statement.
C17_FetchesCompleteOnePage ==
    [][(/\ Cardinality({i \in Ids : tracker[i] = "closed"}) + others.closed <= PerPage
        /\ Cardinality({i \in Ids : tracker[i] \in {"opened", "opened+ready"}}) + others.opened
              <= PerPage)
        => /\ (pc = "get_closed" /\ pc' = "get_merged")
                 => {i \in Ids : tracker[i] = "closed"} \subseteq closed_mrs'
           /\ (pc = "get_unready" /\ pc' = "save_clean")
                 => {i \in Ids : tracker[i] = "opened"} \subseteq unready_mrs'
           /\ (pc = "get_open" /\ pc' = "for")
                 => {i \in Ids : tracker[i] = "opened+ready"} \subseteq SetOf(ready_mrs')]_vars

\* C18: whatever CHECK_INTERVAL is configured, the sleep after a cycle that
\* raised is of the fixed 60 seconds and is strictly shorter than the sleep
\* after a cycle that did not.
C18_ErrorSleepShorter ==
    pc = "sleep_err" =>
        /\ sleep_seconds(pc, CHECK_INTERVAL) = ERROR_SLEEP
        /\ sleep_seconds(pc, CHECK_INTERVAL) < sleep_seconds("sleep_ok", CHECK_INTERVAL)

\* C18, for a CHECK_INTERVAL above 60 seconds: the same statement.
C18_ErrorSleepShorterAbove60 ==
    CHECK_INTERVAL > ERROR_SLEEP => C18_ErrorSleepShorter

====
